---------------------------- MODULE Spec2Model ----------------------------
(***************************************************************************)
(* Transaction fingerprinting (outbe-transaction-fingerprinting).          *)
(*                                                                         *)
(* Field elements of BN254's scalar field are kept as 32 base-256 digits,  *)
(* most significant first (FrVal); their wire image is the little-endian   *)
(* 32-byte array (ToBytes / FromBytes).  Byte strings are sequences of     *)
(* naturals below 256.  The Poseidon sponge itself is abstracted by a      *)
(* digest that reads every byte of every absorbed element.                 *)
(***************************************************************************)
EXTENDS Integers, Sequences, FiniteSets, Bags, TLC

VARIABLES
    tx,          \* request -> the TransactionFingerprintData it carries
    secret,      \* the master secret held by the protocol instance
    pc,          \* copy -> request -> position of complete_fingerprint
    seed,        \* copy -> request -> date_time.squeeze() handed to process
    dtfp,        \* copy -> request -> field element returned by process
    buffer,      \* copy -> request -> the buffer assembled by fingerprint()
    limbs,       \* copy -> request -> limbs pushed by <Bytes>::squeeze
    outcome,     \* copy -> request -> what complete_fingerprint ended in
    cKind,       \* Compact: "fr", "bytes" or "string", what the input is
    cIn,         \* Compact: the field element or byte string compacted
    cStr,        \* Compact: the compact string, a sequence of characters
    cFr,         \* Compact: result of <Fr as Compact>::unwrap(cStr)
    cBytes,      \* Compact: result of <Bytes as Compact>::unwrap(cStr)
    cPc,         \* Compact: "idle", "input" or "compacted"
    shN,         \* Shamir: n, the number of shares issued
    shT,         \* Shamir: t, the reconstruction threshold
    shSecret,    \* Shamir: the master secret
    shCoeffs,    \* Shamir: the sampled coefficients a_1 .. a_(t-1)
    shares,      \* Shamir: the SecretShares (agent_id, value), once split
    thSeed,      \* Collaborative: the seed being processed
    thSelf,      \* Collaborative: the coordinator's agent id
    quorum,      \* Collaborative: the agent ids selected
    contrib,     \* Collaborative: agent id -> point contributed, -1 if none yet
    thResult,    \* Collaborative: the field element process returned
    thPc,        \* Collaborative: "idle", "config", "dealt", "selected", "done"
    lbA,         \* Limbs: a transaction buffer
    lbB,         \* Limbs: the same buffer with one byte changed
    lbOutA,      \* Limbs: what <Bytes>::squeeze did with lbA
    lbOutB,      \* Limbs: what <Bytes>::squeeze did with lbB
    sComp,       \* Serialize: "address", "bytes32" or "datetime"
    sRaw,        \* Serialize: the value the component was constructed from
    sAccept,     \* Serialize: bytes the writer accepts in one write, -1: error
    sBuild,      \* Serialize: "debug" or "release" (debug assertions on or off)
    sWritten,    \* Serialize: the bytes the writer holds
    sResult,     \* Serialize: what serialize returned
    sRawRead,    \* Serialize: the values raw() returned so far
    cfgConf,     \* Start-up: the Cooperative configuration loaded
    cfgPc,       \* Start-up: "idle", "loaded", "running" or "failed"
    cfgProtocol, \* Start-up: the CollaborativeProtocol built, once built
    sgItem,      \* Single: the request's transaction data
    sgPc,        \* Single: position of compute_single_fingerprint
    sgSeed,      \* Single: the squeezed date-time handed to process
    sgHashes,    \* Single: Poseidon squeezes run for the request so far
    sgQuorum,    \* Single: the quorum process selected
    sgRpc,       \* Single: agent id -> state of its cooperate RPC
    sgSent,      \* Single: agent id -> cooperate RPCs sent to it
    sgResponse,  \* Single: what the gRPC caller received
    bBatch,      \* Batch: the transaction_batch of the request
    bComputed,   \* Batch: item data -> what its future computes
    bRemaining,  \* Batch: items the iterator has not yielded yet
    bInFlight,   \* Batch: the futures held by buffer_unordered, a bag
    bHeld,       \* Batch: the response the forwarding task is sending
    bChannel,    \* Batch: responses waiting in the mpsc channel
    bReceived,   \* Batch: responses the client has read
    bRx,         \* Batch: "open", "dropped" or "ended", the client's stream
    bTask,       \* Batch: position of the forwarding task
    bLate,       \* Batch: items started / completed after the stream was dropped
    bClient,     \* Batch: "reads" or "drops", what the client goes on to do
    pRf,         \* Permutation: r_f of the Spec
    pRp,         \* Permutation: r_p of the Spec
    pPc,         \* Permutation: position in Spec::permute
    pIdx,        \* Permutation: rounds done in the current loop
    pLog         \* Permutation: the operations applied to the state so far

pipeVars == <<tx, secret, pc, seed, dtfp, buffer, limbs, outcome>>

compactVars == <<cKind, cIn, cStr, cFr, cBytes, cPc>>

thresholdVars ==
    <<shN, shT, shSecret, shCoeffs, shares, thSeed, thSelf, quorum, contrib,
      thResult, thPc>>

limbVars == <<lbA, lbB, lbOutA, lbOutB>>

serVars == <<sComp, sRaw, sAccept, sBuild, sWritten, sResult, sRawRead>>

cfgVars == <<cfgConf, cfgPc, cfgProtocol>>

singleVars ==
    <<sgItem, sgPc, sgSeed, sgHashes, sgQuorum, sgRpc, sgSent, sgResponse>>

batchVars ==
    <<bBatch, bComputed, bRemaining, bInFlight, bHeld, bChannel, bReceived,
      bRx, bTask, bLate, bClient>>

permVars == <<pRf, pRp, pPc, pIdx, pLog>>

serviceVars == <<limbVars, serVars, cfgVars, singleVars, batchVars, permVars>>

vars == <<pipeVars, compactVars, thresholdVars, serviceVars>>

----------------------------------------------------------------------------
(* Bounds of the explored inputs *)

\* date_time ranges over -MaxTick .. MaxTick half-seconds around EPOCH
MaxTick == 3
\* wwd ranges over -1 .. MaxDay days around EPOCH's date
MaxDay == 2
\* requests running concurrently in each copy of the system
NumReq == 2
\* byte strings of every length up to MaxLen are compacted
MaxLen == 2
\* topologies of up to MaxAgents agents
MaxAgents == 3

----------------------------------------------------------------------------
(* Bytes and numbers *)

Repeat(b, n) == [i \in 1..n |-> b]

Reverse(s) == [i \in 1..Len(s) |-> s[Len(s) + 1 - i]]

Pow256 == <<1, 256, 65536, 16777216>>

\* n (below 2^31) as `len` little-endian base-256 digits
LEBytes(n, len) ==
    [i \in 1..len |-> IF i > 4 THEN 0 ELSE (n \div Pow256[i]) % 256]

\* u64::to_be_bytes / u16::to_be_bytes
BEBytes(n, len) == Reverse(LEBytes(n, len))

RECURSIVE BitXor(_, _)
BitXor(a, b) ==
    IF a = 0 /\ b = 0 THEN 0
    ELSE (((a % 2) + (b % 2)) % 2) + 2 * BitXor(a \div 2, b \div 2)

----------------------------------------------------------------------------
(* The scalar field Fr *)

FR_SIZE == 32

\* The modulus r of BN254's scalar field, little-endian:
\* 0x30644e72e131a029b85045b68181585d2833e84879b9709143e1f593f0000001
FrModulusLE ==
    << 1, 0, 0, 240, 147, 245, 225, 67, 145, 112, 185, 121, 72, 232, 51, 40,
       93, 88, 129, 129, 182, 69, 80, 184, 41, 160, 49, 225, 114, 78, 100, 48 >>

FrModulus == Reverse(FrModulusLE)

\* a < b for two digit strings of equal length, most significant digit first
DigitsLess(a, b) ==
    \E i \in 1..Len(a) :
        /\ a[i] < b[i]
        /\ \A j \in 1..(i - 1) : a[j] = b[j]

FrZero == Repeat(0, FR_SIZE)

\* Fr::from(u64)
FrFromNat(n) == BEBytes(n, FR_SIZE)

\* Fr::to_bytes: the canonical little-endian image
ToBytes(x) == Reverse(x)

None == <<"none">>

\* Fr::from_bytes: None unless the 32 bytes are below the modulus
FromBytes(b) ==
    IF DigitsLess(Reverse(b), FrModulus) THEN Reverse(b) ELSE None

UnwrapOrZero(o) == IF o = None THEN FrZero ELSE o

----------------------------------------------------------------------------
(* Poseidon, abstracted: a digest of the spec's width and of every byte    *)
(* of every absorbed element, in order.                                    *)

HashRange == 251

RECURSIVE PowMod(_, _)
PowMod(b, e) ==
    IF e = 0 THEN 1
    ELSE LET h == PowMod(b, e \div 2)
         IN  (h * h * (IF e % 2 = 1 THEN b ELSE 1)) % HashRange

\* 31^e modulo HashRange, tabulated
Pow31 == [e \in 0..(8 * FR_SIZE) |-> PowMod(31, e)]

\* sum of (bs[i] + 1) * 31^(Len(bs) - i) over lo..hi, modulo HashRange
RECURSIVE MixSum(_, _, _)
MixSum(bs, lo, hi) ==
    IF lo > hi THEN 0
    ELSE IF lo = hi THEN ((bs[lo] + 1) * Pow31[Len(bs) - lo]) % HashRange
    ELSE LET mid == (lo + hi) \div 2
         IN  (MixSum(bs, lo, mid) + MixSum(bs, mid + 1, hi)) % HashRange

\* acc folded over bs by acc <- 31 * acc + byte + 1 (mod HashRange)
MixBytes(acc, bs) ==
    ((acc * Pow31[Len(bs)]) + MixSum(bs, 1, Len(bs))) % HashRange

\* the wire images of the absorbed elements, each closed by a mark
RECURSIVE AbsorbedBytes(_)
AbsorbedBytes(frs) ==
    IF frs = <<>> THEN <<>>
    ELSE ToBytes(Head(frs)) \o <<254>> \o AbsorbedBytes(Tail(frs))

\* Poseidon::new_with_spec(spec); update(inputs); squeeze()
PoseidonHash(width, inputs) ==
    FrFromNat(MixBytes(width, AbsorbedBytes(inputs)))

SPEC_T == 2
SPEC_BIG_T == 5
SPEC_DC_T == 4

----------------------------------------------------------------------------
(* Results of fallible operations: Ok(val), Err(msg), or a panic           *)

Ok(v) == [kind |-> "Ok", val |-> v, msg |-> ""]
Err(m) == [kind |-> "Err", val |-> <<>>, msg |-> m]
Panic(m) == [kind |-> "Panic", val |-> <<>>, msg |-> m]
NoResult == [kind |-> "None", val |-> <<>>, msg |-> ""]

----------------------------------------------------------------------------
(* DateTimeComponent and the Cantor pairing                                *)

\* Instants are counted in ticks from EPOCH, TicksPerSecond ticks a second
\* (chrono keeps nanoseconds); calendar days are counted from EPOCH's date.
TicksPerSecond == 2

U32_MAX == 2147483647

\* TimeDelta::num_seconds: whole seconds, rounded toward zero
NumSeconds(ticks) ==
    IF ticks >= 0 THEN ticks \div TicksPerSecond
    ELSE -((-ticks) \div TicksPerSecond)

\* the literal `10 ^ 18` of the source: bitwise exclusive or
TenXorEighteen == BitXor(10, 18)

cantor_pair_function(x, y) ==
    ((x * x) + (3 * x) + (2 * x * y) + y + (y * y)) \div 2

\* <DateTimeComponent as SqueezeComponent<Fr>>::squeeze
DateTimeSqueeze(raw) ==
    LET full_amount == (raw.amount[1] * TenXorEighteen) + raw.amount[2]
        seconds_since_epoch == NumSeconds(raw.date_time)
        days_since_epoch == raw.wwd
    IN  IF seconds_since_epoch < 0
          THEN Err("Date cannot be earlier than Epoch")
        ELSE IF days_since_epoch < 0 \/ days_since_epoch > U32_MAX
          THEN Err("World Wide Date cannot be earlier than Epoch")
        ELSE IF days_since_epoch = 0
          THEN Panic("U256 division by zero")
        ELSE Ok(PoseidonHash(SPEC_DC_T,
                   << FrFromNat(seconds_since_epoch),
                      FrFromNat(days_since_epoch),
                      FrFromNat(cantor_pair_function(seconds_since_epoch,
                                    full_amount \div days_since_epoch)) >>))

----------------------------------------------------------------------------
(* Components' byte images                                                 *)

BIC_SIZE == 8
AMOUNT_SIZE == 16
CURRENCY_SIZE == 2
DATETIME_SIZE == 32
PREFIX_SIZE == 8

FingerprintPrefix == <<255, 254, 237, 221, 204, 0, 221, 238>>

BankIdentifierSerialize(bic) == bic
AmountSerialize(amount) == BEBytes(amount[1], 8) \o BEBytes(amount[2], 8)
CurrencySerialize(code) == BEBytes(code, 2)
ScalarSerialize(fr) == ToBytes(fr)

\* TransactionFingerprintData::fingerprint_size
fingerprint_size ==
    PREFIX_SIZE + BIC_SIZE + AMOUNT_SIZE + CURRENCY_SIZE + DATETIME_SIZE

FingerprintBufferCurrencyFirst(t, date_time) ==
    FingerprintPrefix
        \o BankIdentifierSerialize(t.bic)
        \o CurrencySerialize(t.currency)
        \o AmountSerialize(t.amount)
        \o ScalarSerialize(date_time)

\* the buffer fingerprint() writes: prefix, bic, amount, currency, date_time
FingerprintBuffer(t, date_time) ==
    FingerprintPrefix
        \o BankIdentifierSerialize(t.bic)
        \o AmountSerialize(t.amount)
        \o CurrencySerialize(t.currency)
        \o ScalarSerialize(date_time)

----------------------------------------------------------------------------
(* Hashing a byte buffer and a curve point                                 *)

Pad32(chunk) == chunk \o Repeat(0, FR_SIZE - Len(chunk))

\* the loop of <Bytes as HashSqueeze<Fr>>::squeeze over
\* (0..len).step_by(limb_size); acc are the limbs pushed so far
RECURSIVE LimbLoop(_, _, _, _)
LimbLoop(buf, limb_size, offset, acc) ==
    IF offset >= Len(buf) THEN [kind |-> "Ok", limbs |-> acc]
    ELSE IF limb_size > FR_SIZE \/ offset + limb_size > Len(buf)
      THEN [kind |-> "Panic", limbs |-> acc]
    ELSE LimbLoop(buf, limb_size, offset + limb_size,
            Append(acc, UnwrapOrZero(FromBytes(
                Pad32(SubSeq(buf, offset + 1, offset + limb_size))))))

\* <Bytes as HashSqueeze<Fr>>::squeeze: [kind, limbs, val]
BytesSqueeze(buf) ==
    LET limb_size == Len(buf) \div 4
        loop == IF limb_size = 0
                  THEN [kind |-> "Panic", limbs |-> <<>>]
                  ELSE LimbLoop(buf, limb_size, 0, <<>>)
    IN  IF loop.kind = "Ok"
          THEN [kind |-> "Ok", limbs |-> loop.limbs,
                val |-> PoseidonHash(SPEC_BIG_T, loop.limbs)]
          ELSE [kind |-> "Panic", limbs |-> loop.limbs, val |-> <<>>]

\* The group G1 of prime order GroupOrder, each point kept as its
\* discrete logarithm; its compressed image is 32 bytes.
GroupOrder == 5

PointCompress(p) == LEBytes(p, FR_SIZE)

\* <G1 as HashSqueeze<Fr>>::squeeze: two 16-byte limbs into SPEC
G1Squeeze(p) ==
    LET bytes == PointCompress(p)
        frs == << UnwrapOrZero(FromBytes(Pad32(SubSeq(bytes, 1, 16)))),
                  UnwrapOrZero(FromBytes(Pad32(SubSeq(bytes, 17, 32)))) >>
    IN  PoseidonHash(SPEC_T, frs)

----------------------------------------------------------------------------
(* NaiveProtocol                                                           *)

\* hash_to_curve("CRA_FINGERPRINT", seed): never the identity
HashToCurve(s) == 1 + (MixBytes(15, ToBytes(s)) % (GroupOrder - 1))

ScalarMul(p, k) == (p * k) % GroupOrder

\* NaiveProtocol(secret).process(seed)
NaiveProcess(s, k) == G1Squeeze(ScalarMul(HashToCurve(s), k))

----------------------------------------------------------------------------
(* Compact: base58 of the canonical bytes                                  *)

\* the Bitcoin alphabet of bs58; a string is a sequence of characters
Alphabet ==
    << "1", "2", "3", "4", "5", "6", "7", "8", "9",
       "A", "B", "C", "D", "E", "F", "G", "H", "J", "K", "L", "M", "N", "P",
       "Q", "R", "S", "T", "U", "V", "W", "X", "Y", "Z",
       "a", "b", "c", "d", "e", "f", "g", "h", "i", "j", "k", "m", "n", "o",
       "p", "q", "r", "s", "t", "u", "v", "w", "x", "y", "z" >>

BASE == Len(Alphabet)

\* the digit a character stands for, -1 for a character outside the alphabet
CharIndex(ch) ==
    IF \E i \in 1..BASE : Alphabet[i] = ch
      THEN (CHOOSE i \in 1..BASE : Alphabet[i] = ch) - 1
      ELSE -1

\* how many leading elements of s equal e
LeadingCount(s, e) ==
    IF \A i \in 1..Len(s) : s[i] = e THEN Len(s)
    ELSE (CHOOSE i \in 1..Len(s) : s[i] # e /\ \A j \in 1..(i - 1) : s[j] = e) - 1

IsZero(num) == \A i \in 1..Len(num) : num[i] = 0

\* BASE^3: three base-58 digits are handled at a time
BASE3 == BASE * BASE * BASE

\* long division of the base-256 number num (most significant first) by
\* BASE3, from digit i on: <<quotient, remainder>>; quot holds the i - 1
\* quotient digits already produced
RECURSIVE DivBase(_, _, _, _)
DivBase(num, i, rem, quot) ==
    IF Len(quot) >= Len(num) THEN <<quot, rem>>
    ELSE LET cur == (rem * 256) + num[i]
         IN  DivBase(num, i + 1, cur % BASE3, Append(quot, cur \div BASE3))

\* the base-58 digits of num, most significant first, three for every
\* division by BASE3 (the first ones may be zero)
RECURSIVE ToDigits(_)
ToDigits(num) ==
    IF IsZero(num) THEN <<>>
    ELSE LET qr == DivBase(num, 1, 0, <<>>)
         IN  ToDigits(qr[1])
                \o << qr[2] \div (BASE * BASE), (qr[2] \div BASE) % BASE,
                      qr[2] % BASE >>

\* bs58::encode(bytes).into_string()
Base58Encode(bytes) ==
    LET zeros == LeadingCount(bytes, 0)
        padded == ToDigits(SubSeq(bytes, zeros + 1, Len(bytes)))
        digits == SubSeq(padded, LeadingCount(padded, 0) + 1, Len(padded))
    IN  [i \in 1..zeros |-> Alphabet[1]]
            \o [i \in 1..Len(digits) |-> Alphabet[digits[i] + 1]]

\* num * BASE3 + carry for the base-256 number num, from digit i down; out
\* holds the Len(num) - i digits already produced
RECURSIVE MulAdd(_, _, _, _)
MulAdd(num, i, carry, out) ==
    IF Len(out) >= Len(num) /\ carry = 0 THEN out
    ELSE LET cur == (IF i >= 1 THEN num[i] * BASE3 ELSE 0) + carry
         IN  MulAdd(num, i - 1, cur \div 256, <<cur % 256>> \o out)

\* the base-256 number the digits from i on add to acc, three digits at a
\* time
RECURSIVE FromDigits(_, _, _)
FromDigits(digits, i, acc) ==
    IF i > Len(digits) THEN acc
    ELSE FromDigits(digits, i + 3,
            MulAdd(acc, Len(acc),
                   (digits[i] * BASE * BASE) + (digits[i + 1] * BASE)
                       + digits[i + 2], <<>>))

\* bs58::decode(str).into_vec()
Base58Decode(str) ==
    LET digits == [i \in 1..Len(str) |-> CharIndex(str[i])]
        ones == LeadingCount(digits, 0)
        rest == SubSeq(digits, ones + 1, Len(digits))
        padded == Repeat(0, (3 - (Len(rest) % 3)) % 3) \o rest
    IN  IF \E i \in 1..Len(str) : digits[i] < 0
          THEN Err("bs58: invalid character")
          ELSE Ok(Repeat(0, ones) \o FromDigits(padded, 1, <<>>))

FrCompactBigEndian(x) == Base58Encode(x)

\* <Fr as Compact>::compact
FrCompact(x) == Base58Encode(ToBytes(x))

\* <Fr as Compact>::unwrap
FrUnwrap(compacted) ==
    LET bytes == Base58Decode(compacted)
    IN  IF bytes.kind # "Ok" THEN bytes
        ELSE IF Len(bytes.val) < FR_SIZE
          THEN Err("given array is less than 32 bytes long")
        ELSE LET fr == FromBytes(SubSeq(bytes.val, 1, FR_SIZE))
             IN  IF fr = None THEN Err("value does not represent Fr")
                 ELSE Ok(fr)

\* <Bytes as Compact>::compact
BytesCompact(b) == Base58Encode(b)

\* <Bytes as Compact>::unwrap
BytesUnwrap(compacted) == Base58Decode(compacted)

\* The explored inputs: 32-byte arrays a, f, ..., f, z, the modulus and its
\* neighbours; short byte strings; strings outside the alphabet
SampleBytes == {0, 1, 255}

Arr(a, f, z) == <<a>> \o Repeat(f, FR_SIZE - 2) \o <<z>>

Arrays32 ==
    { Arr(a, f, z) : a \in SampleBytes, f \in SampleBytes,
                     z \in {0, 1, 47, 48, 49, 255} }
    \cup { FrModulusLE,
           [FrModulusLE EXCEPT ![1] = 0],
           [FrModulusLE EXCEPT ![1] = 2] }

FrSamples == { FromBytes(b) : b \in Arrays32 } \ {None}

ShortBytes == UNION { [1..n -> SampleBytes] : n \in 0..MaxLen }

BytesSamples ==
    ShortBytes
    \cup Arrays32
    \cup { SubSeq(b, 1, FR_SIZE - 1) : b \in Arrays32 }
    \cup { b \o <<e>> : b \in Arrays32, e \in {0, 7} }

StringSamples ==
    { <<"0">>, <<"1", "l">>, <<"O", "z">>, <<"2", "I", "2">>, <<" ">> }
    \cup { [FrCompact(x) EXCEPT ![1] = "0"] : x \in FrSamples }

CompactIdle ==
    /\ cKind = "idle"
    /\ cIn = <<>>
    /\ cStr = <<>>
    /\ cFr = NoResult
    /\ cBytes = NoResult
    /\ cPc = "idle"

----------------------------------------------------------------------------
(* Secret sharing and the collaborative protocol.  Scalars are residues    *)
(* modulo GroupOrder, the order of G1.                                     *)

Scalars == 0..(GroupOrder - 1)

FMod(x) == ((x % GroupOrder) + GroupOrder) % GroupOrder
FMul(a, b) == FMod(a * b)
FInv(a) == CHOOSE y \in Scalars : FMul(a, y) = 1

RECURSIVE SumOver(_, _)
SumOver(S, f) ==
    IF S = {} THEN 0
    ELSE LET i == CHOOSE i \in S : TRUE
         IN  FMod(f[i] + SumOver(S \ {i}, f))

RECURSIVE ProdOver(_, _)
ProdOver(S, f) ==
    IF S = {} THEN 1
    ELSE LET i == CHOOSE i \in S : TRUE
         IN  FMul(f[i], ProdOver(S \ {i}, f))

\* x^k in the field
FPow(x, k) == ProdOver(1..k, [j \in 1..k |-> x])

PolyEvalShifted(s, coeffs, x) ==
    FMod(s + SumOver(DOMAIN coeffs,
                     [k \in DOMAIN coeffs |-> FMul(coeffs[k], FPow(x, k - 1))]))

\* f(x) = secret + a_1 x + ... + a_(t-1) x^(t-1)
PolyEval(s, coeffs, x) ==
    FMod(s + SumOver(DOMAIN coeffs,
                     [k \in DOMAIN coeffs |-> FMul(coeffs[k], FPow(x, k))]))

\* split: the shares (i, f(i)) for i = 1 .. n
Split(s, coeffs, n) ==
    { [agent_id |-> i, value |-> PolyEval(s, coeffs, i)] : i \in 1..n }

ShareOf(i) == (CHOOSE sh \in shares : sh.agent_id = i).value

LagrangeAtZeroUnsigned(i, S) ==
    ProdOver(S \ {i}, [j \in S \ {i} |-> FMul(FMod(j), FInv(FMod(i - j)))])

\* lambda_i = product over j in S, j # i, of (-j) * (i - j)^(-1)
LagrangeAtZero(i, S) ==
    ProdOver(S \ {i}, [j \in S \ {i} |-> FMul(FMod(-j), FInv(FMod(i - j)))])

\* AgentService::cooperate(point, lagrange_coef): point^(coef * own_share)
Cooperate(point, coef, share) == ScalarMul(point, FMul(coef, share))

\* the quorums the coordinator may select: t agent ids, itself among them
Quorums(n, t, self) ==
    { Q \in SUBSET (1..n) : Cardinality(Q) = t /\ self \in Q }

SeedSamples == { FrFromNat(1), FrFromNat(77) }

ThresholdIdle ==
    /\ shN = 0 /\ shT = 0 /\ shSecret = 0
    /\ shCoeffs = <<>> /\ shares = {}
    /\ thSeed = <<>> /\ thSelf = 0
    /\ quorum = {} /\ contrib = <<>>
    /\ thResult = <<>>
    /\ thPc = "idle"

LimbsIdle == lbA = <<>> /\ lbB = <<>> /\ lbOutA = <<>> /\ lbOutB = <<>>

SerializeIdle ==
    /\ sComp = "idle" /\ sRaw = <<>> /\ sAccept = 0 /\ sBuild = "release"
    /\ sWritten = <<>> /\ sResult = <<>> /\ sRawRead = <<>>

StartUpIdle == cfgConf = <<>> /\ cfgPc = "idle" /\ cfgProtocol = <<>>

SingleIdle ==
    /\ sgItem = <<>> /\ sgPc = "idle" /\ sgSeed = <<>> /\ sgHashes = 0
    /\ sgQuorum = {} /\ sgRpc = <<>> /\ sgSent = <<>> /\ sgResponse = <<>>

BatchIdle ==
    /\ bBatch = <<>> /\ bComputed = <<>> /\ bRemaining = <<>>
    /\ bInFlight = EmptyBag
    /\ bHeld = NoResult
    /\ bChannel = <<>> /\ bReceived = <<>> /\ bRx = "open" /\ bTask = "idle"
    /\ bLate = [started |-> FALSE, completed |-> FALSE] /\ bClient = "reads"

PermuteIdle == pRf = 0 /\ pRp = 0 /\ pPc = "idle" /\ pIdx = 0 /\ pLog = <<>>

----------------------------------------------------------------------------
(* The explored transactions                                               *)

Requests == 1..NumReq
Copies == {1, 2}

\* "BCEELU21" and "DEUTDEFF" in ASCII
BicSamples == { <<66, 67, 69, 69, 76, 85, 50, 49>>,
                <<68, 69, 85, 84, 68, 69, 70, 70>> }
\* EUR, USD
CurrencySamples == {978, 840}
AmountSamples == { <<0, 0>>, <<1000, 0>>, <<3, 7>> }

TxWide ==
    [ bic : BicSamples, amount : AmountSamples, currency : CurrencySamples,
      date_time : (-MaxTick)..MaxTick, wwd : (-1)..MaxDay ]

TxSmall ==
    { t \in TxWide : /\ t.bic = <<66, 67, 69, 69, 76, 85, 50, 49>>
                     /\ t.currency = 978
                     /\ t.amount = <<1000, 0>>
                     /\ t.date_time \in {0, MaxTick}
                     /\ t.wwd = 1 }

SecretSamples == {2, 3}

----------------------------------------------------------------------------
(* complete_fingerprint, one future per request and copy                   *)

\* the squeezed value of the lowest request awaiting process in copy c
SeedOfCrossed(c, r) ==
    seed[c][CHOOSE r2 \in Requests :
                /\ pc[c][r2] = "awaiting"
                /\ \A r3 \in Requests : pc[c][r3] = "awaiting" => r2 <= r3]

\* the squeezed value datetime_fingerprint hands to process
SeedOf(c, r) == seed[c][r]

\* first poll: date_time.squeeze()?, then process(squeezed) is awaited
CompleteFingerprintStart(c, r) ==
    /\ pc[c][r] = "new"
    /\ LET squeezed == DateTimeSqueeze(tx[r])
       IN  IF squeezed.kind = "Ok"
             THEN /\ seed' = [seed EXCEPT ![c][r] = squeezed.val]
                  /\ pc' = [pc EXCEPT ![c][r] = "awaiting"]
                  /\ UNCHANGED outcome
             ELSE /\ outcome' = [outcome EXCEPT ![c][r] = squeezed]
                  /\ pc' = [pc EXCEPT ![c][r] = "done"]
                  /\ UNCHANGED seed
    /\ UNCHANGED <<tx, secret, dtfp, buffer, limbs, compactVars, thresholdVars,
                 serviceVars>>

\* process returned Ok: fingerprint(date_time) runs to its end
ProcessReturn(c, r) ==
    /\ pc[c][r] = "awaiting"
    /\ LET date_time == NaiveProcess(SeedOf(c, r), secret)
           buf == FingerprintBuffer(tx[r], date_time)
           hashed == BytesSqueeze(buf)
       IN  /\ dtfp' = [dtfp EXCEPT ![c][r] = date_time]
           /\ buffer' = [buffer EXCEPT ![c][r] = buf]
           /\ limbs' = [limbs EXCEPT ![c][r] = hashed.limbs]
           /\ outcome' = [outcome EXCEPT ![c][r] =
                            IF hashed.kind = "Ok" THEN Ok(hashed.val)
                            ELSE Panic("range end out of bounds")]
    /\ pc' = [pc EXCEPT ![c][r] = "done"]
    /\ UNCHANGED <<tx, secret, seed, compactVars, thresholdVars,
                 serviceVars>>

\* process returned an error: complete_fingerprint returns it
ProcessFail(c, r) ==
    /\ pc[c][r] = "awaiting"
    /\ outcome' = [outcome EXCEPT ![c][r] = Err("protocol error")]
    /\ pc' = [pc EXCEPT ![c][r] = "done"]
    /\ UNCHANGED <<tx, secret, seed, dtfp, buffer, limbs, compactVars, thresholdVars,
                 serviceVars>>

PipeInit(active, txs, secrets) ==
    /\ tx \in txs
    /\ secret \in secrets
    /\ pc = [c \in Copies |-> [r \in Requests |->
                IF <<c, r>> \in active THEN "new" ELSE "absent"]]
    /\ seed = [c \in Copies |-> [r \in Requests |-> <<>>]]
    /\ dtfp = [c \in Copies |-> [r \in Requests |-> <<>>]]
    /\ buffer = [c \in Copies |-> [r \in Requests |-> <<>>]]
    /\ limbs = [c \in Copies |-> [r \in Requests |-> <<>>]]
    /\ outcome = [c \in Copies |-> [r \in Requests |-> NoResult]]

PipeNext ==
    \E c \in Copies, r \in Requests :
        \/ CompleteFingerprintStart(c, r)
        \/ ProcessReturn(c, r)
        \/ ProcessFail(c, r)

\* one request, every explored transaction
Init ==
    /\ PipeInit({<<1, 1>>}, {[r \in Requests |-> t] : t \in TxWide},
                SecretSamples)
    /\ CompactIdle
    /\ ThresholdIdle
    /\ LimbsIdle /\ SerializeIdle /\ StartUpIdle
    /\ SingleIdle /\ BatchIdle /\ PermuteIdle

Next == PipeNext

Spec == Init /\ [][Next]_vars

\* two copies of the system serving the same requests, interleaved freely
InitPair ==
    /\ PipeInit(Copies \X Requests, [Requests -> TxSmall], {3})
    /\ CompactIdle
    /\ ThresholdIdle
    /\ LimbsIdle /\ SerializeIdle /\ StartUpIdle
    /\ SingleIdle /\ BatchIdle /\ PermuteIdle

SpecPair == InitPair /\ [][Next]_vars

----------------------------------------------------------------------------
(* Compact: every explored input is compacted, then unwrapped              *)

FrCompactStep ==
    /\ cPc = "input"
    /\ cKind = "fr"
    /\ cStr' = FrCompact(cIn)
    /\ cPc' = "compacted"
    /\ UNCHANGED <<cKind, cIn, cFr, cBytes, pipeVars, thresholdVars,
                 serviceVars>>

BytesCompactStep ==
    /\ cPc = "input"
    /\ cKind = "bytes"
    /\ cStr' = BytesCompact(cIn)
    /\ cPc' = "compacted"
    /\ UNCHANGED <<cKind, cIn, cFr, cBytes, pipeVars, thresholdVars,
                 serviceVars>>

FrUnwrapStep ==
    /\ cPc = "compacted"
    /\ cFr = NoResult
    /\ cFr' = FrUnwrap(cStr)
    /\ UNCHANGED <<cKind, cIn, cStr, cBytes, cPc, pipeVars, thresholdVars,
                 serviceVars>>

BytesUnwrapStep ==
    /\ cPc = "compacted"
    /\ cBytes = NoResult
    /\ cBytes' = BytesUnwrap(cStr)
    /\ UNCHANGED <<cKind, cIn, cStr, cFr, cPc, pipeVars, thresholdVars,
                 serviceVars>>

PipeIdle ==
    /\ PipeInit({}, {[r \in Requests |-> CHOOSE t \in TxSmall : TRUE]}, {3})

InitCompact ==
    /\ PipeIdle
    /\ ThresholdIdle
    /\ LimbsIdle /\ SerializeIdle /\ StartUpIdle
    /\ SingleIdle /\ BatchIdle /\ PermuteIdle
    /\ cFr = NoResult
    /\ cBytes = NoResult
    /\ \/ cKind = "fr" /\ cIn \in FrSamples /\ cStr = <<>> /\ cPc = "input"
       \/ cKind = "bytes" /\ cIn \in BytesSamples /\ cStr = <<>> /\ cPc = "input"
       \/ /\ cKind = "string" /\ cIn = <<>>
          /\ cStr \in StringSamples /\ cPc = "compacted"

NextCompact ==
    \/ FrCompactStep
    \/ BytesCompactStep
    \/ FrUnwrapStep
    \/ BytesUnwrapStep

SpecCompact == InitCompact /\ [][NextCompact]_vars

----------------------------------------------------------------------------
(* Provisioning by Shamir's scheme, then one collaborative process(seed)   *)

SplitSecret ==
    /\ thPc = "config"
    /\ shares' = Split(shSecret, shCoeffs, shN)
    /\ thPc' = "dealt"
    /\ UNCHANGED <<shN, shT, shSecret, shCoeffs, thSeed, thSelf, quorum,
                   contrib, thResult, pipeVars, compactVars,
                   serviceVars>>

SelectQuorum(Q) ==
    /\ thPc = "dealt"
    /\ quorum' = Q
    /\ contrib' = [i \in Q |-> -1]
    /\ thPc' = "selected"
    /\ UNCHANGED <<shN, shT, shSecret, shCoeffs, shares, thSeed, thSelf,
                   thResult, pipeVars, compactVars,
                   serviceVars>>

\* agent i answers (P, lambda_i); the coordinator computes its own the same way
CooperateStep(i) ==
    /\ thPc = "selected"
    /\ contrib[i] = -1
    /\ contrib' = [contrib EXCEPT ![i] =
                     Cooperate(HashToCurve(thSeed), LagrangeAtZero(i, quorum),
                               ShareOf(i))]
    /\ UNCHANGED <<shN, shT, shSecret, shCoeffs, shares, thSeed, thSelf,
                   quorum, thResult, thPc, pipeVars, compactVars,
                   serviceVars>>

\* every contribution is in: aggregate by curve addition and fold
Aggregate ==
    /\ thPc = "selected"
    /\ \A i \in quorum : contrib[i] # -1
    /\ thResult' = G1Squeeze(SumOver(quorum, contrib))
    /\ thPc' = "done"
    /\ UNCHANGED <<shN, shT, shSecret, shCoeffs, shares, thSeed, thSelf,
                   quorum, contrib, pipeVars, compactVars,
                   serviceVars>>

InitThreshold ==
    /\ PipeIdle
    /\ CompactIdle
    /\ LimbsIdle /\ SerializeIdle /\ StartUpIdle
    /\ SingleIdle /\ BatchIdle /\ PermuteIdle
    /\ shN \in 1..MaxAgents
    /\ shT \in 1..shN
    /\ shSecret \in Scalars
    /\ shCoeffs \in [1..(shT - 1) -> Scalars]
    /\ shares = {}
    /\ thSeed \in SeedSamples
    /\ thSelf \in 1..shN
    /\ quorum = {}
    /\ contrib = <<>>
    /\ thResult = <<>>
    /\ thPc = "config"

NextThreshold ==
    \/ SplitSecret
    \/ \E Q \in Quorums(shN, shT, thSelf) : SelectQuorum(Q)
    \/ \E i \in quorum : CooperateStep(i)
    \/ Aggregate

SpecThreshold == InitThreshold /\ [][NextThreshold]_vars

----------------------------------------------------------------------------
(* <Bytes as HashSqueeze<Fr>>::squeeze on two buffers one byte apart       *)

\* every other machine at rest
CoreIdle == PipeIdle /\ CompactIdle /\ ThresholdIdle

\* buffers as fingerprint() assembles them
LimbBuffers ==
    { FingerprintBuffer(t, d) :
        t \in { t \in TxWide : t.date_time = 0 /\ t.wwd = 1
                               /\ t.amount = <<3, 7>> /\ t.currency = 978 },
        d \in { FrFromNat(7), FromBytes(Arr(1, 1, 1)) } }

\* the byte at position p raised by delta
ChangeByte(buf, p, delta) == [buf EXCEPT ![p] = (buf[p] + delta) % 256]

SqueezeFirst ==
    /\ lbA # <<>>
    /\ lbOutA = <<>>
    /\ lbOutA' = BytesSqueeze(lbA)
    /\ UNCHANGED <<lbA, lbB, lbOutB, pipeVars, compactVars, thresholdVars,
                   serVars, cfgVars, singleVars, batchVars, permVars>>

SqueezeSecond ==
    /\ lbB # <<>>
    /\ lbOutB = <<>>
    /\ lbOutB' = BytesSqueeze(lbB)
    /\ UNCHANGED <<lbA, lbB, lbOutA, pipeVars, compactVars, thresholdVars,
                   serVars, cfgVars, singleVars, batchVars, permVars>>

InitLimbs ==
    /\ CoreIdle
    /\ SerializeIdle /\ StartUpIdle /\ SingleIdle /\ BatchIdle /\ PermuteIdle
    /\ lbA \in LimbBuffers
    /\ \E p \in (PREFIX_SIZE + 1)..fingerprint_size, delta \in {1, 128} :
          lbB = ChangeByte(lbA, p, delta)
    /\ lbOutA = <<>>
    /\ lbOutB = <<>>

NextLimbs == SqueezeFirst \/ SqueezeSecond

SpecLimbs == InitLimbs /\ [][NextLimbs]_vars

----------------------------------------------------------------------------
(* FingerprintComponent::serialize and raw of the 32-byte components       *)

ADDRESS_SIZE == 32
BYTES32_SIZE == 32

\* std::io::Write::write on a writer that takes at most accept bytes of one
\* call (-1: the call fails): the bytes taken, or an error
WriterWrite(accept, bytes) ==
    IF accept < 0 THEN Err("io error")
    ELSE Ok(SubSeq(bytes, 1, IF accept < Len(bytes) THEN accept ELSE Len(bytes)))

\* let written = buffer.write(image)?; debug_assert_eq!(written, size); Ok(())
\* gives [result, written]
WriteImage(image, size, accept, build) ==
    LET w == WriterWrite(accept, image)
    IN  IF w.kind = "Err" THEN [result |-> w, written |-> <<>>]
        ELSE IF build = "debug" /\ Len(w.val) # size
          THEN [result |-> Panic("assertion failed: written == size"),
                written |-> w.val]
        ELSE [result |-> Ok(<<>>), written |-> w.val]

AddressSerializeStep ==
    /\ sComp = "address"
    /\ sResult = NoResult
    /\ LET out == WriteImage(sRaw, ADDRESS_SIZE, sAccept, sBuild)
       IN  sResult' = out.result /\ sWritten' = out.written
    /\ UNCHANGED <<sComp, sRaw, sAccept, sBuild, sRawRead, pipeVars,
                   compactVars, thresholdVars, limbVars, cfgVars, singleVars,
                   batchVars, permVars>>

Bytes32SerializeStep ==
    /\ sComp = "bytes32"
    /\ sResult = NoResult
    /\ LET out == WriteImage(sRaw, BYTES32_SIZE, sAccept, sBuild)
       IN  sResult' = out.result /\ sWritten' = out.written
    /\ UNCHANGED <<sComp, sRaw, sAccept, sBuild, sRawRead, pipeVars,
                   compactVars, thresholdVars, limbVars, cfgVars, singleVars,
                   batchVars, permVars>>

\* let squeezed = self.squeeze()?; then the write of squeezed.to_bytes()
DateTimeSerializeStep ==
    /\ sComp = "datetime"
    /\ sResult = NoResult
    /\ LET squeezed == DateTimeSqueeze(sRaw)
           out == WriteImage(ToBytes(squeezed.val), DATETIME_SIZE, sAccept,
                             sBuild)
       IN  IF squeezed.kind = "Ok"
             THEN sResult' = out.result /\ sWritten' = out.written
             ELSE sResult' = squeezed /\ sWritten' = <<>>
    /\ UNCHANGED <<sComp, sRaw, sAccept, sBuild, sRawRead, pipeVars,
                   compactVars, thresholdVars, limbVars, cfgVars, singleVars,
                   batchVars, permVars>>

\* raw(): a reference to the stored value
RawStep ==
    /\ sComp \in {"address", "bytes32", "datetime"}
    /\ sRawRead = <<>>
    /\ sRawRead' = <<sRaw>>
    /\ UNCHANGED <<sComp, sRaw, sAccept, sBuild, sWritten, sResult, pipeVars,
                   compactVars, thresholdVars, limbVars, cfgVars, singleVars,
                   batchVars, permVars>>

\* what the explored writers accept in one call
AcceptSamples == {-1, 0, 1, 16, 31, 32, 33}

InitSerialize ==
    /\ CoreIdle
    /\ LimbsIdle /\ StartUpIdle /\ SingleIdle /\ BatchIdle /\ PermuteIdle
    /\ \/ sComp = "address" /\ sRaw \in Arrays32
       \/ sComp = "bytes32" /\ sRaw \in Arrays32
       \/ /\ sComp = "datetime"
          /\ sRaw \in { t \in TxWide : t.currency = 978 /\ t.bic[1] = 66 }
    /\ sAccept \in AcceptSamples
    /\ sBuild \in {"debug", "release"}
    /\ sWritten = <<>>
    /\ sResult = NoResult
    /\ sRawRead = <<>>

NextSerialize ==
    \/ AddressSerializeStep
    \/ Bytes32SerializeStep
    \/ DateTimeSerializeStep
    \/ RawStep

SpecSerialize == InitSerialize /\ [][NextSerialize]_vars

----------------------------------------------------------------------------
(* Start-up of the agent server in Cooperative mode                        *)

\* members.iter().map(|agent| (agent.agent_id, agent.address)).collect():
\* the map agent_id -> endpoint; a later entry replaces an earlier one
RECURSIVE CollectMembers(_)
CollectMembers(members) ==
    IF members = <<>> THEN <<>>
    ELSE LET rest == CollectMembers(SubSeq(members, 1, Len(members) - 1))
             last == members[Len(members)]
         IN  [id \in (DOMAIN rest) \cup {last.agent_id} |->
                 IF id = last.agent_id THEN last.address ELSE rest[id]]

\* GrpcAgentsTopology::new(agents, threshold, members)
TopologyNew(agents, threshold, members) ==
    [agents |-> agents, threshold |-> threshold, members |-> members]

\* CollaborativeProtocol::new((agent_id, secret), topology)
CollaborativeProtocolNew(self_share, topology) ==
    [agent_id |-> self_share[1], share |-> self_share[2],
     topology |-> topology]

\* the Cooperative branch up to the servers being built
StartCooperative ==
    /\ cfgPc = "loaded"
    /\ LET topology == TopologyNew(cfgConf.agents, cfgConf.threshold,
                                   CollectMembers(cfgConf.members))
           current_agent_secret == FrUnwrap(cfgConf.secret_shard)
       IN  /\ current_agent_secret.kind = "Ok"
           /\ cfgProtocol' = CollaborativeProtocolNew(
                                <<cfgConf.agent_id, current_agent_secret.val>>,
                                topology)
    /\ cfgPc' = "running"
    /\ UNCHANGED <<cfgConf, pipeVars, compactVars, thresholdVars, limbVars,
                   serVars, singleVars, batchVars, permVars>>

\* Compact::unwrap(&topology_config.secret_shard)? fails: main returns it
StartCooperativeFail ==
    /\ cfgPc = "loaded"
    /\ FrUnwrap(cfgConf.secret_shard).kind # "Ok"
    /\ cfgPc' = "failed"
    /\ UNCHANGED <<cfgConf, cfgProtocol, pipeVars, compactVars, thresholdVars,
                   limbVars, serVars, singleVars, batchVars, permVars>>

\* agent ids a configuration may name
ConfigIds == 0..(MaxAgents - 1)

MemberLists ==
    UNION { [1..n -> [agent_id : ConfigIds, address : {"a", "b"}]] :
                n \in 0..(MaxAgents - 1) }

ShardSamples == { FrCompact(FrFromNat(2)), <<"0">> }

InitStartUp ==
    /\ CoreIdle
    /\ LimbsIdle /\ SerializeIdle /\ SingleIdle /\ BatchIdle /\ PermuteIdle
    /\ cfgConf \in [ agent_id : ConfigIds,
                     secret_shard : ShardSamples,
                     agents : 0..MaxAgents,
                     threshold : 0..(MaxAgents + 1),
                     members : MemberLists ]
    /\ cfgPc = "loaded"
    /\ cfgProtocol = <<>>

NextStartUp == StartCooperative \/ StartCooperativeFail

SpecStartUp == InitStartUp /\ [][NextStartUp]_vars

----------------------------------------------------------------------------
(* compute_single_fingerprint over a CollaborativeProtocol                 *)

\* iso_currency: Currency::from_code with numeric() and is_special();
\* known is FALSE for a code outside ISO 4217
CurrencyFromCode(code) ==
    CASE code = "EUR" -> [known |-> TRUE, numeric |-> 978, special |-> FALSE]
      [] code = "USD" -> [known |-> TRUE, numeric |-> 840, special |-> FALSE]
      [] code = "XAU" -> [known |-> TRUE, numeric |-> 959, special |-> TRUE]
      [] code = "XXX" -> [known |-> TRUE, numeric |-> 999, special |-> TRUE]
      [] OTHER -> [known |-> FALSE, numeric |-> 0, special |-> FALSE]

CurrencyTakenUnchecked(code) == CurrencyFromCode(code).known

\* the currency passes TryFrom<RawTransaction>: known and not special
CurrencyTaken(code) ==
    /\ CurrencyFromCode(code).known
    /\ ~CurrencyFromCode(code).special

\* TryFrom<RawTransaction> for TransactionFingerprintData
TryFromRaw(raw) ==
    IF ~CurrencyFromCode(raw.currency).known
      THEN Err("Currency is not in the ISO 4217 currency")
    ELSE IF ~CurrencyTaken(raw.currency)
      THEN Err("Currency should have numeric value")
    ELSE Ok([ bic |-> raw.bic, amount |-> raw.amount,
              currency |-> CurrencyFromCode(raw.currency).numeric,
              date_time |-> raw.date_time, wwd |-> raw.wwd ])

\* a gRPC Status; agent is the id an AgentUnavailable error names, else 0
Status(code, msg, agent) ==
    [kind |-> "Status", code |-> code, msg |-> msg, agent |-> agent]

StatusInternal(msg, agent) == Status("Internal", msg, agent)

\* map_err(|e| Status::new(Code::Aborted, ..)) on complete_fingerprint
StatusAborted(msg, agent) == Status("Aborted", msg, agent)

\* the request's transaction data up to TransactionFingerprintData:
\* Err(Status) or Ok(TransactionFingerprintData)
Validate(item) ==
    IF ~item.present
      THEN [kind |-> "Err",
            val |-> Status("InvalidArgument", "Transaction data missing", 0)]
    ELSE LET data == TryFromRaw(item)
         IN  IF data.kind = "Ok" THEN data
             ELSE [kind |-> "Err", val |-> Status("Unknown", data.msg, 0)]

\* the quorum process selects: the t smallest ids, self substituted in
SelectedQuorum(n, t, self) ==
    IF self \in 1..t THEN 1..t ELSE (1..(t - 1)) \cup {self}

\* request.transaction_data.ok_or(..)?; try_into()?; try_into()?
SingleValidate ==
    /\ sgPc = "received"
    /\ LET data == Validate(sgItem)
       IN  IF data.kind = "Ok"
             THEN sgPc' = "validated" /\ UNCHANGED sgResponse
             ELSE sgPc' = "responded" /\ sgResponse' = data.val
    /\ UNCHANGED <<sgItem, sgSeed, sgHashes, sgQuorum, sgRpc, sgSent,
                   pipeVars, compactVars, thresholdVars, limbVars, serVars,
                   cfgVars, batchVars, permVars>>

\* complete_fingerprint up to the first await in process: the squeeze,
\* the quorum, one cooperate RPC sent to every other agent of the quorum
SingleSqueeze ==
    /\ sgPc = "validated"
    /\ LET squeezed == DateTimeSqueeze(Validate(sgItem).val)
           Q == SelectedQuorum(shN, shT, thSelf)
       IN  CASE squeezed.kind = "Ok" ->
                    /\ sgSeed' = squeezed.val
                    /\ sgHashes' = sgHashes + 1
                    /\ sgQuorum' = Q
                    /\ sgRpc' = [i \in Q \ {thSelf} |-> "pending"]
                    /\ sgSent' = [i \in Q \ {thSelf} |-> 1]
                    /\ sgPc' = "awaiting"
                    /\ UNCHANGED sgResponse
              [] squeezed.kind = "Err" ->
                    /\ sgResponse' = StatusAborted(squeezed.msg, 0)
                    /\ sgPc' = "responded"
                    /\ UNCHANGED <<sgSeed, sgHashes, sgQuorum, sgRpc, sgSent>>
              [] OTHER ->
                    /\ sgResponse' = squeezed
                    /\ sgPc' = "responded"
                    /\ UNCHANGED <<sgSeed, sgHashes, sgQuorum, sgRpc, sgSent>>
    /\ UNCHANGED <<sgItem, pipeVars, compactVars, thresholdVars, limbVars,
                   serVars, cfgVars, batchVars, permVars>>

\* agent i answers its cooperate RPC
RpcReturn(i) ==
    /\ sgPc = "awaiting"
    /\ sgRpc[i] = "pending"
    /\ sgRpc' = [sgRpc EXCEPT ![i] = "ok"]
    /\ UNCHANGED <<sgItem, sgPc, sgSeed, sgHashes, sgQuorum, sgSent,
                   sgResponse, pipeVars, compactVars, thresholdVars, limbVars,
                   serVars, cfgVars, batchVars, permVars>>

\* the cooperate RPC to agent i fails: process returns AgentUnavailable(i),
\* the pending RPCs are dropped, the handler maps the error to a Status
RpcFail(i) ==
    /\ sgPc = "awaiting"
    /\ sgRpc[i] = "pending"
    /\ sgRpc' = [j \in DOMAIN sgRpc |->
                    IF j = i THEN "failed"
                    ELSE IF sgRpc[j] = "pending" THEN "dropped" ELSE sgRpc[j]]
    /\ sgResponse' = StatusAborted("AgentUnavailable", i)
    /\ sgPc' = "responded"
    /\ UNCHANGED <<sgItem, sgSeed, sgHashes, sgQuorum, sgSent, pipeVars,
                   compactVars, thresholdVars, limbVars, serVars, cfgVars,
                   batchVars, permVars>>

\* every contribution is in: process returns H(sum), fingerprint() runs
SingleFinish ==
    /\ sgPc = "awaiting"
    /\ \A i \in DOMAIN sgRpc : sgRpc[i] = "ok"
    /\ LET P == HashToCurve(sgSeed)
           points == [i \in sgQuorum |->
                        Cooperate(P, LagrangeAtZero(i, sgQuorum), ShareOf(i))]
           date_time == G1Squeeze(SumOver(sgQuorum, points))
           hashed == BytesSqueeze(
                        FingerprintBuffer(Validate(sgItem).val, date_time))
       IN  IF hashed.kind = "Ok"
             THEN /\ sgResponse' = Ok(hashed.val)
                  /\ sgHashes' = sgHashes + 2
             ELSE /\ sgResponse' = Panic("range end out of bounds")
                  /\ sgHashes' = sgHashes + 1
    /\ sgPc' = "responded"
    /\ UNCHANGED <<sgItem, sgSeed, sgQuorum, sgRpc, sgSent, pipeVars,
                   compactVars, thresholdVars, limbVars, serVars, cfgVars,
                   batchVars, permVars>>

\* the transaction data a request may carry; present is FALSE when the
\* request has no transaction_data
ItemSamples ==
    LET data == [ present : {TRUE},
                  bic : {<<66, 67, 69, 69, 76, 85, 50, 49>>},
                  amount : {<<1000, 0>>},
                  currency : {"EUR", "USD", "XAU", "XXX", "ZZZ"},
                  date_time : {-(2 * TicksPerSecond), 0, 1},
                  wwd : {-1, 0, 1} ]
    IN  data \cup { [(CHOOSE d \in data : TRUE) EXCEPT !.present = FALSE] }

\* a protocol instance: agent thSelf of a t-of-n sharing of secret 3
ProtocolInstance ==
    /\ shN \in 1..MaxAgents
    /\ shT \in 1..shN
    /\ shSecret = 3
    /\ shCoeffs = [k \in 1..(shT - 1) |-> k]
    /\ shares = Split(shSecret, shCoeffs, shN)
    /\ thSelf \in 1..shN
    /\ thSeed = <<>> /\ quorum = {} /\ contrib = <<>> /\ thResult = <<>>
    /\ thPc = "dealt"

InitSingle ==
    /\ PipeIdle /\ CompactIdle
    /\ ProtocolInstance
    /\ LimbsIdle /\ SerializeIdle /\ StartUpIdle /\ BatchIdle /\ PermuteIdle
    /\ sgItem \in ItemSamples
    /\ sgPc = "received"
    /\ sgSeed = <<>>
    /\ sgHashes = 0
    /\ sgQuorum = {}
    /\ sgRpc = <<>>
    /\ sgSent = <<>>
    /\ sgResponse = NoResult

NextSingle ==
    \/ SingleValidate
    \/ SingleSqueeze
    \/ \E i \in DOMAIN sgRpc : RpcReturn(i)
    \/ \E i \in DOMAIN sgRpc : RpcFail(i)
    \/ SingleFinish

SpecSingle == InitSingle /\ [][NextSingle]_vars

----------------------------------------------------------------------------
(* The batch handler: compute_batch_fingerprint and its forwarding task    *)

\* .buffer_unordered(16)
BUFFER_UNORDERED == 16

\* mpsc::channel(16)
CHANNEL_CAPACITY == 16

MaxBatch == 2

LongBatch == 33

\* the bag of the elements of a sequence
BagOfSeq(s) ==
    [x \in {s[i] : i \in DOMAIN s} |->
        Cardinality({i \in DOMAIN s : s[i] = x})]

\* the future the map closure builds for an item; pc is "new" until its
\* first poll and "awaiting" while process waits for the agents
ItemFuture(item, at) == [item |-> item, pc |-> at]

\* what the stream yields for an item: from is the item it was computed
\* from (an error Status itself carries no item_id)
Message(item, resp) == [from |-> item.item_id, resp |-> resp]

\* ComputeBatchFingerprintResponse { item_id, fingerprint: Some(..) }
BatchResponse(item, fingerprint) ==
    [kind |-> "Response", item_id |-> item.item_id,
     fingerprint |-> fingerprint]

\* complete_fingerprint from the moment process has every contribution
Completed(data) ==
    LET Q == SelectedQuorum(shN, shT, thSelf)
        P == HashToCurve(DateTimeSqueeze(data).val)
        points == [i \in Q |->
                     Cooperate(P, LagrangeAtZero(i, Q), ShareOf(i))]
    IN  BytesSqueeze(FingerprintBuffer(data, G1Squeeze(SumOver(Q, points))))

\* the first poll of an item's future: the validation and the date-time
\* squeeze end it with a Status (Ready), panic, or leave it waiting for
\* the agents (Pending)
FirstPoll(data) ==
    LET validated == Validate(data)
        squeezed == DateTimeSqueeze(validated.val)
    IN  IF validated.kind # "Ok"
          THEN [kind |-> "Ready", resp |-> validated.val]
        ELSE IF squeezed.kind = "Err"
          THEN [kind |-> "Ready", resp |-> StatusAborted(squeezed.msg, 0)]
        ELSE IF squeezed.kind = "Panic"
          THEN [kind |-> "Panic", resp |-> NoResult]
        ELSE [kind |-> "Pending", resp |-> NoResult]

\* what the future of an item computes, a pure function of the item's data
\* and of the protocol instance: its first poll, and the rest of
\* complete_fingerprint once the agents have answered
Computed(data) ==
    [first |-> FirstPoll(data),
     rest |-> IF FirstPoll(data).kind = "Pending"
                THEN Completed(Validate(data).val)
                ELSE NoResult]

FillCountUnbounded == Len(bRemaining)

\* how many futures buffer_unordered takes from the iterator in one poll:
\* while in_progress_queue.len() < max
FillCount ==
    IF Len(bRemaining) < BUFFER_UNORDERED - BagCardinality(bInFlight)
      THEN Len(bRemaining)
      ELSE BUFFER_UNORDERED - BagCardinality(bInFlight)

\* buffer_unordered has taken what it can hold from the iterator
Filled == FillCount = 0

\* tx.send(resp).await returns Err: the receiver is gone
SendFails == bRx = "dropped"

\* the value of bLate after an item was started / completed
Late(started, completed) ==
    [started |-> bLate.started \/ (started /\ bRx = "dropped"),
     completed |-> bLate.completed \/ (completed /\ bRx = "dropped")]

\* stream.next() polls buffer_unordered, which first takes futures from
\* the iterator up to its limit
Fill ==
    /\ bTask = "next"
    /\ FillCount > 0
    /\ bInFlight' = bInFlight (+)
           BagOfSeq([i \in 1..FillCount |-> ItemFuture(bRemaining[i], "new")])
    /\ bRemaining' = SubSeq(bRemaining, FillCount + 1, Len(bRemaining))
    /\ UNCHANGED <<bBatch, bComputed, bHeld, bChannel, bReceived, bRx, bTask, bLate,
                   bClient, pipeVars, compactVars, thresholdVars, limbVars,
                   serVars, cfgVars, singleVars, permVars>>

\* a future of the stream yields resp: the task goes on to tx.send(resp)
Yield(f, resp) ==
    /\ bInFlight' = bInFlight (-) SetToBag({f})
    /\ bHeld' = Message(f.item, resp)
    /\ bTask' = "send"
    /\ UNCHANGED <<bRemaining, bChannel>>

\* a future polled by the task panics: the task ends, the stream with its
\* futures and the sender are dropped
TaskPanics ==
    /\ bInFlight' = EmptyBag
    /\ bRemaining' = <<>>
    /\ bHeld' = NoResult
    /\ bTask' = "panicked"
    /\ UNCHANGED bChannel

\* first poll of an item's future: validation, the date-time squeeze, the
\* cooperate RPCs sent (FirstPoll, tabulated in bComputed)
PollNew(f) ==
    /\ bTask = "next"
    /\ Filled
    /\ BagIn(f, bInFlight)
    /\ f.pc = "new"
    /\ LET polled == bComputed[f.item.data].first
       IN  IF polled.kind = "Ready"
             THEN Yield(f, polled.resp) /\ bLate' = Late(TRUE, TRUE)
           ELSE IF polled.kind = "Panic"
             THEN TaskPanics /\ bLate' = Late(TRUE, FALSE)
           ELSE /\ bInFlight' = (bInFlight (-) SetToBag({f}))
                                   (+) SetToBag({ItemFuture(f.item, "awaiting")})
                /\ bLate' = Late(TRUE, FALSE)
                /\ UNCHANGED <<bRemaining, bHeld, bChannel, bTask>>
    /\ UNCHANGED <<bBatch, bComputed, bReceived, bRx, bClient, pipeVars, compactVars,
                   thresholdVars, limbVars, serVars, cfgVars, singleVars,
                   permVars>>

\* every agent of the quorum has answered: process returns, the rest of
\* complete_fingerprint runs
ItemReturn(f) ==
    /\ bTask = "next"
    /\ Filled
    /\ BagIn(f, bInFlight)
    /\ f.pc = "awaiting"
    /\ LET hashed == bComputed[f.item.data].rest
       IN  IF hashed.kind = "Ok"
             THEN /\ Yield(f, BatchResponse(f.item, hashed.val))
                  /\ bLate' = Late(FALSE, TRUE)
             ELSE TaskPanics /\ UNCHANGED bLate
    /\ UNCHANGED <<bBatch, bComputed, bReceived, bRx, bClient, pipeVars, compactVars,
                   thresholdVars, limbVars, serVars, cfgVars, singleVars,
                   permVars>>

\* the cooperate RPC to agent i fails: the item ends with Code::Aborted
ItemFail(f, i) ==
    /\ bTask = "next"
    /\ Filled
    /\ BagIn(f, bInFlight)
    /\ f.pc = "awaiting"
    /\ i \in SelectedQuorum(shN, shT, thSelf) \ {thSelf}
    /\ Yield(f, StatusAborted("AgentUnavailable", i))
    /\ bLate' = Late(FALSE, TRUE)
    /\ UNCHANGED <<bBatch, bComputed, bReceived, bRx, bClient, pipeVars, compactVars,
                   thresholdVars, limbVars, serVars, cfgVars, singleVars,
                   permVars>>

SendWithoutBreak ==
    /\ bTask = "send"
    /\ ~SendFails
    /\ Len(bChannel) < CHANNEL_CAPACITY
    /\ bChannel' = Append(bChannel, bHeld)
    /\ bHeld' = NoResult
    /\ bTask' = "next"
    /\ UNCHANGED <<bBatch, bComputed, bInFlight, bRemaining, bReceived, bRx,
                   bLate, bClient, pipeVars, compactVars, thresholdVars,
                   limbVars, serVars, cfgVars, singleVars, permVars>>

\* match tx.send(resp).await { Ok(_) => {} Err(_) => break }
Send ==
    /\ bTask = "send"
    /\ IF SendFails
         THEN /\ bTask' = "done"
              /\ bInFlight' = EmptyBag
              /\ bRemaining' = <<>>
              /\ bHeld' = NoResult
              /\ UNCHANGED bChannel
         ELSE /\ Len(bChannel) < CHANNEL_CAPACITY
              /\ bChannel' = Append(bChannel, bHeld)
              /\ bHeld' = NoResult
              /\ bTask' = "next"
              /\ UNCHANGED <<bInFlight, bRemaining>>
    /\ UNCHANGED <<bBatch, bComputed, bReceived, bRx, bLate, bClient, pipeVars,
                   compactVars, thresholdVars, limbVars, serVars, cfgVars,
                   singleVars, permVars>>

\* stream.next() returns None: the while let loop ends, tx is dropped
StreamEnd ==
    /\ bTask = "next"
    /\ bRemaining = <<>>
    /\ bInFlight = EmptyBag
    /\ bTask' = "done"
    /\ UNCHANGED <<bBatch, bComputed, bRemaining, bInFlight, bHeld, bChannel, bReceived,
                   bRx, bLate, bClient, pipeVars, compactVars, thresholdVars,
                   limbVars, serVars, cfgVars, singleVars, permVars>>

\* the client polls the ReceiverStream: the next message, or the end of the
\* stream once the sender is gone and the channel is empty
ClientRead ==
    /\ bRx = "open"
    /\ IF bChannel # <<>>
         THEN /\ bReceived' = Append(bReceived, Head(bChannel))
              /\ bChannel' = Tail(bChannel)
              /\ UNCHANGED bRx
         ELSE /\ bTask \in {"done", "panicked"}
              /\ bRx' = "ended"
              /\ UNCHANGED <<bReceived, bChannel>>
    /\ UNCHANGED <<bBatch, bComputed, bRemaining, bInFlight, bHeld, bTask, bLate,
                   bClient, pipeVars, compactVars, thresholdVars, limbVars,
                   serVars, cfgVars, singleVars, permVars>>

\* the client drops the response stream: the receiver and the messages
\* still in the channel are gone
ClientDrop ==
    /\ bRx = "open"
    /\ bClient = "drops"
    /\ bRx' = "dropped"
    /\ bChannel' = <<>>
    /\ UNCHANGED <<bBatch, bComputed, bRemaining, bInFlight, bHeld, bReceived, bTask,
                   bLate, bClient, pipeVars, compactVars, thresholdVars,
                   limbVars, serVars, cfgVars, singleVars, permVars>>

\* the transaction data of the explored batch items: a valid transaction,
\* one whose world-wide day is the epoch, ones in a special currency, and
\* an item without transaction_data
BatchData ==
    { d \in ItemSamples :
        \/ ~d.present
        \/ d.date_time = 1 /\ d.wwd \in {0, 1} /\ d.currency \in {"EUR", "XXX"} }

\* the explored batches: every batch of up to MaxBatch items numbered by
\* position, and one batch of LongBatch equal valid items
Batches ==
    LET short(n) ==
            { [i \in 1..n |-> [item_id |-> i, data |-> ds[i]]] :
                ds \in [1..n -> BatchData] }
        valid == CHOOSE d \in BatchData :
                    d.present /\ d.wwd = 1 /\ d.currency = "EUR"
    IN  UNION { short(n) : n \in 1..MaxBatch }
          \cup { [i \in 1..LongBatch |-> [item_id |-> 7, data |-> valid]] }

\* the request is accepted: the stream is built, the task is spawned and
\* the ReceiverStream is returned to the client
InitBatch ==
    /\ PipeIdle /\ CompactIdle
    /\ ProtocolInstance
    /\ shN = 2 /\ thSelf = 1
    /\ LimbsIdle /\ SerializeIdle /\ StartUpIdle /\ SingleIdle /\ PermuteIdle
    /\ bComputed = [d \in BatchData |-> Computed(d)]
    /\ bBatch \in Batches
    /\ bRemaining = bBatch
    /\ bInFlight = EmptyBag
    /\ bHeld = NoResult
    /\ bChannel = <<>>
    /\ bReceived = <<>>
    /\ bRx = "open"
    /\ bTask = "next"
    /\ bLate = [started |-> FALSE, completed |-> FALSE]
    /\ bClient \in {"reads", "drops"}

NextBatch ==
    \/ Fill
    \/ \E f \in BagToSet(bInFlight) : PollNew(f)
    \/ \E f \in BagToSet(bInFlight) : ItemReturn(f)
    \/ \E f \in BagToSet(bInFlight) :
           \E i \in 1..MaxAgents : ItemFail(f, i)
    \/ Send
    \/ StreamEnd
    \/ ClientRead
    \/ ClientDrop

SpecBatch == InitBatch /\ [][NextBatch]_vars

\* a step of the forwarding task or of one of the futures it polls
TaskStep ==
    \/ Fill
    \/ \E f \in BagToSet(bInFlight) : PollNew(f)
    \/ \E f \in BagToSet(bInFlight) : ItemReturn(f)
    \/ \E f \in BagToSet(bInFlight) :
           \E i \in 1..MaxAgents : ItemFail(f, i)
    \/ Send
    \/ StreamEnd

\* the runtime keeps polling the spawned task and every item's
\* computation completes; a reading client keeps reading, a dropping
\* client drops
SpecBatchFair ==
    /\ SpecBatch
    /\ WF_vars(TaskStep)
    /\ WF_vars(ClientRead /\ bClient = "reads")
    /\ WF_vars(ClientDrop)

----------------------------------------------------------------------------
(* The Poseidon permutation: Spec::permute                                 *)

\* Spec::new(8, 57)
SPEC_R_F == 8

SPEC_R_P == 57

MaxHalfRounds == 3

MaxPartialRounds == 3

\* one operation applied to the state: op on the constants (or the sparse
\* matrix) number at of the vector from
Op(op, from, at) == [op |-> op, from |-> from, at |-> at]

\* lengths of the optimized constants and of the sparse matrices of a Spec
\* with r_f full and r_p partial rounds
StartLen == (pRf \div 2) + 1

PartialLen == pRp

SparseLen == pRp

EndLen == (pRf \div 2) - 1

Smaller(a, b) == IF a < b THEN a ELSE b

FirstHalfRoundsAll == Smaller(StartLen - 1, pRf \div 2)

\* iterations of start.iter().skip(1).take(r_f - 1), r_f = self.r_f / 2
FirstHalfRounds == Smaller(StartLen - 1, (pRf \div 2) - 1)

\* iterations of partial.iter().zip(sparse_matrices.iter())
PartialRounds == Smaller(PartialLen, SparseLen)

\* where permute goes on after the pre-sparse MDS or a partial round that
\* leaves partial partial rounds to do
AfterPartial(partial) ==
    IF partial > 0 THEN "partial"
    ELSE IF EndLen > 0 THEN "second" ELSE "final"

\* state.add_constants(&self.constants.start[0])
AddStartFirst ==
    /\ pPc = "begin"
    /\ pLog' = pLog \o <<Op("add_constants", "start", 0)>>
    /\ pIdx' = 1
    /\ pPc' = IF FirstHalfRounds > 0 THEN "first" ELSE "last_start"
    /\ UNCHANGED <<pRf, pRp, pipeVars, compactVars, thresholdVars, limbVars,
                   serVars, cfgVars, singleVars, batchVars>>

\* one iteration of the loop over start.iter().skip(1).take(r_f - 1)
FirstHalfRound ==
    /\ pPc = "first"
    /\ pLog' = pLog \o << Op("sbox_full", "", 0),
                          Op("add_constants", "start", pIdx),
                          Op("mds", "", 0) >>
    /\ pIdx' = pIdx + 1
    /\ pPc' = IF pIdx < FirstHalfRounds THEN "first" ELSE "last_start"
    /\ UNCHANGED <<pRf, pRp, pipeVars, compactVars, thresholdVars, limbVars,
                   serVars, cfgVars, singleVars, batchVars>>

\* sbox_full; add_constants(start.last().unwrap()); pre_sparse_mds.apply
LastStartRound ==
    /\ pPc = "last_start"
    /\ pLog' = pLog \o << Op("sbox_full", "", 0),
                          Op("add_constants", "start", StartLen - 1),
                          Op("pre_sparse_mds", "", 0) >>
    /\ pIdx' = 0
    /\ pPc' = AfterPartial(PartialRounds)
    /\ UNCHANGED <<pRf, pRp, pipeVars, compactVars, thresholdVars, limbVars,
                   serVars, cfgVars, singleVars, batchVars>>

\* one iteration of the loop over the partial constants zipped with the
\* sparse matrices
PartialRound ==
    /\ pPc = "partial"
    /\ pLog' = pLog \o << Op("sbox_part", "", 0),
                          Op("add_constant", "partial", pIdx),
                          Op("sparse_mds", "sparse_matrices", pIdx) >>
    /\ pIdx' = IF pIdx + 1 < PartialRounds THEN pIdx + 1 ELSE 0
    /\ pPc' = AfterPartial(PartialRounds - (pIdx + 1))
    /\ UNCHANGED <<pRf, pRp, pipeVars, compactVars, thresholdVars, limbVars,
                   serVars, cfgVars, singleVars, batchVars>>

\* one iteration of the loop over self.constants.end.iter()
SecondHalfRound ==
    /\ pPc = "second"
    /\ pLog' = pLog \o << Op("sbox_full", "", 0),
                          Op("add_constants", "end", pIdx),
                          Op("mds", "", 0) >>
    /\ pIdx' = pIdx + 1
    /\ pPc' = IF pIdx + 1 < EndLen THEN "second" ELSE "final"
    /\ UNCHANGED <<pRf, pRp, pipeVars, compactVars, thresholdVars, limbVars,
                   serVars, cfgVars, singleVars, batchVars>>

\* state.sbox_full(); self.mds_matrices.mds.apply(state)
FinalRound ==
    /\ pPc = "final"
    /\ pLog' = pLog \o <<Op("sbox_full", "", 0), Op("mds", "", 0)>>
    /\ pPc' = "done"
    /\ UNCHANGED <<pRf, pRp, pIdx, pipeVars, compactVars, thresholdVars,
                   limbVars, serVars, cfgVars, singleVars, batchVars>>

\* the explored Specs: every even r_f up to 2 * MaxHalfRounds with every
\* r_p up to MaxPartialRounds, and the Spec of the three hashers
SpecSamples ==
    { <<2 * h, p>> : h \in 1..MaxHalfRounds, p \in 0..MaxPartialRounds }
        \cup { <<SPEC_R_F, SPEC_R_P>> }

InitPermute ==
    /\ CoreIdle
    /\ LimbsIdle /\ SerializeIdle /\ StartUpIdle /\ SingleIdle /\ BatchIdle
    /\ \E sample \in SpecSamples : pRf = sample[1] /\ pRp = sample[2]
    /\ pPc = "begin"
    /\ pIdx = 0
    /\ pLog = <<>>

NextPermute ==
    \/ AddStartFirst
    \/ FirstHalfRound
    \/ LastStartRound
    \/ PartialRound
    \/ SecondHalfRound
    \/ FinalRound

SpecPermute == InitPermute /\ [][NextPermute]_vars

----------------------------------------------------------------------------
(* The claims                                                              *)

Done(c, r) == pc[c][r] = "done"

ProtocolFailed(c, r) == outcome[c][r].msg = "protocol error"

C2_ThresholdAgreement ==
    thPc = "done" => thResult = NaiveProcess(thSeed, shSecret)

\* a 2-of-3 run over a non-constant polynomial and a non-zero secret ended
C2_Witness ==
    /\ thPc = "done"
    /\ shT = 2 /\ shN = 3
    /\ shSecret # 0
    /\ shCoeffs[1] # 0

\* C3: Shamir reconstruction.  The split yields n shares at distinct
\* non-zero points, and for every subset of exactly t of them the Lagrange
\* coefficients at zero applied to the share values sum to the secret.
C3_ShamirReconstruction ==
    thPc \in {"dealt", "selected", "done"} =>
        /\ Cardinality(shares) = shN
        /\ Cardinality({FMod(sh.agent_id) : sh \in shares}) = shN
        /\ \A sh \in shares : FMod(sh.agent_id) # 0
        /\ \A S \in SUBSET shares :
              Cardinality(S) = shT =>
                LET ids == {sh.agent_id : sh \in S}
                    val == [i \in ids |->
                              (CHOOSE sh \in S : sh.agent_id = i).value]
                IN  SumOver(ids, [i \in ids |->
                        FMul(LagrangeAtZero(i, ids), val[i])]) = shSecret

\* a 2-of-3 split of a non-zero secret under a non-constant polynomial
C3_Witness ==
    /\ thPc = "dealt"
    /\ shT = 2 /\ shN = 3
    /\ shSecret # 0
    /\ shCoeffs[1] # 0

\* C4: compact round trip.  Unwrapping the compact form of a field element
\* succeeds and returns that element; unwrapping the compact form of a byte
\* string returns that byte string.
C4_CompactRoundTrip ==
    /\ (cKind = "fr" /\ cFr # NoResult) => cFr = Ok(cIn)
    /\ (cKind = "bytes" /\ cBytes # NoResult) => cBytes = Ok(cIn)

\* a non-zero field element whose image starts with a zero byte came back
C4_Witness ==
    /\ cKind = "fr"
    /\ cFr.kind = "Ok"
    /\ cIn # FrZero
    /\ ToBytes(cIn)[1] = 0

Canonical(b) == Len(b) = FR_SIZE /\ DigitsLess(Reverse(b), FrModulus)

\* C5: <Fr as Compact>::unwrap returns a field element only for a string
\* that is valid base58 of exactly 32 bytes holding a canonical element:
\* it fails for a string outside base58, for a decoded length other than
\* 32 (shorter or longer) and for a non-canonical 32-byte value.
C5_MalformedRejected ==
    cFr.kind = "Ok" =>
        /\ cKind # "string"
        /\ cKind = "bytes" => Canonical(cIn)

\* C6: when wwd is EPOCH's date the date-time squeeze is rejected with an
\* error value and does not panic, whatever the amount and the date_time.
C6_ZeroDaysRejected ==
    \A c \in Copies, r \in Requests :
        (tx[r].wwd = 0 /\ pc[c][r] \notin {"new", "absent"})
        => (Done(c, r) /\ outcome[c][r].kind = "Err")

\* C7: a transaction with date_time = EPOCH and wwd = EPOCH's date is
\* accepted: its squeeze succeeds and complete_fingerprint returns a field
\* element.
C7_EpochAccepted ==
    \A c \in Copies, r \in Requests :
        (tx[r].date_time = 0 /\ tx[r].wwd = 0 /\ Done(c, r) /\ ~ProtocolFailed(c, r))
        => outcome[c][r].kind = "Ok"

\* C8: whenever date_time is earlier than EPOCH or wwd is earlier than
\* EPOCH's date (or the day offset exceeds u32::MAX), the squeeze returns an
\* error, complete_fingerprint returns it and process is never invoked.
\* Stated for the non-zero day offsets; the zero offset is the case of C6.
C8_EarlyDatesRejected ==
    \A c \in Copies, r \in Requests :
        ( /\ tx[r].date_time < 0 \/ tx[r].wwd < 0 \/ tx[r].wwd > U32_MAX
          /\ tx[r].wwd # 0
          /\ pc[c][r] \notin {"new", "absent"} )
        => /\ Done(c, r)
           /\ outcome[c][r].kind = "Err"
           /\ seed[c][r] = <<>>
           /\ dtfp[c][r] = <<>>

\* bs is the big-endian image of n (n below 2^31)
IsBigEndian(bs, n) ==
    \A i \in 1..Len(bs) :
        LET e == Len(bs) - i
        IN  bs[i] = IF e > 3 THEN 0 ELSE (n \div (256 ^ e)) % 256

\* C9: the buffer fingerprint() assembles is exactly 66 bytes, which is
\* fingerprint_size(), and is, in this order, the prefix
\* FF FE ED DD CC 00 DD EE, the 8-byte BIC, the 16-byte amount (base, then
\* atto, big-endian), the 2-byte currency code and the 32-byte image of the
\* field element the protocol returned.
C9_BufferLayout ==
    \A c \in Copies, r \in Requests :
        buffer[c][r] # <<>> =>
            LET b == buffer[c][r]
            IN  /\ Len(b) = 66
                /\ Len(b) = fingerprint_size
                /\ SubSeq(b, 1, 8) = <<255, 254, 237, 221, 204, 0, 221, 238>>
                /\ SubSeq(b, 9, 16) = tx[r].bic
                /\ IsBigEndian(SubSeq(b, 17, 24), tx[r].amount[1])
                /\ IsBigEndian(SubSeq(b, 25, 32), tx[r].amount[2])
                /\ IsBigEndian(SubSeq(b, 33, 34), tx[r].currency)
                /\ FromBytes(SubSeq(b, 35, 66)) = dtfp[c][r]

\* a buffer was assembled for an amount with both parts non-zero
C9_Witness ==
    /\ buffer[1][1] # <<>>
    /\ tx[1].amount = <<3, 7>>
    /\ dtfp[1][1] # FrZero

\* C10: hashing the assembled 66-byte buffer pushes exactly four limbs and
\* returns a result: it neither reads past the end of the buffer nor panics.
C10_FourLimbsNoPanic ==
    \A c \in Copies, r \in Requests :
        buffer[c][r] # <<>> =>
            /\ Len(limbs[c][r]) = 4
            /\ outcome[c][r].kind = "Ok"

\* the bytes a limb sequence carries: the low 16 bytes of every limb
RECURSIVE LimbBytes(_)
LimbBytes(ls) ==
    IF ls = <<>> THEN <<>>
    ELSE SubSeq(ToBytes(Head(ls)), 1, 16) \o LimbBytes(Tail(ls))

\* C11: padding fidelity.  Two transaction buffers that differ in one byte
\* of the BIC, the amount, the currency or the date-time squeeze are both
\* hashed, the limb sequences absorbed by SPEC_BIG differ, and the limbs
\* carry every byte of the buffer.
C11_PaddingFidelity ==
    (lbOutA # <<>> /\ lbOutB # <<>>) =>
        /\ lbOutA.kind = "Ok" /\ lbOutB.kind = "Ok"
        /\ lbOutA.limbs # lbOutB.limbs
        /\ LimbBytes(lbOutA.limbs) = lbA
        /\ LimbBytes(lbOutB.limbs) = lbB

\* the 32-byte image serialize is to write for the component
ImageOf(comp, raw) ==
    IF comp = "datetime" THEN ToBytes(DateTimeSqueeze(raw).val) ELSE raw

\* C12: a serialize call of AddressComponent, Bytes32Component or
\* DateTimeComponent that returns Ok has written exactly size() = 32 bytes,
\* every byte of the value in order, whatever the writer accepts; and raw()
\* returns the value the component was constructed from.
C12_SerializeWritesAll ==
    /\ sResult.kind = "Ok" =>
          /\ Len(sWritten) = 32
          /\ sWritten = ImageOf(sComp, sRaw)
    /\ (sComp # "idle" /\ sRawRead # <<>>) => sRawRead = <<sRaw>>

\* C13: every collaborative protocol turned into a running service has
\* 1 <= threshold <= agents, member agent ids that are distinct and
\* non-zero, and this node's own agent_id among the members.
C13_TopologyInvariants ==
    cfgPc = "running" =>
        LET topology == cfgProtocol.topology
            ids == DOMAIN topology.members
        IN  /\ 1 <= topology.threshold
            /\ topology.threshold <= topology.agents
            /\ Cardinality(ids) = Len(cfgConf.members)
            /\ 0 \notin ids
            /\ cfgProtocol.agent_id \in ids

\* C14: in collaborative mode the failure of an agent RPC aborts the
\* request with AgentUnavailable(id): every agent of the quorum was sent at
\* most one RPC, the quorum is the one selected at first, and the caller
\* receives an Aborted status and no fingerprint.
C14_AgentUnavailableAborts ==
    /\ \A i \in DOMAIN sgSent : sgSent[i] <= 1 /\ i \in sgQuorum
    /\ sgQuorum # {} => sgQuorum = SelectedQuorum(shN, shT, thSelf)
    /\ \A i \in DOMAIN sgRpc :
          sgRpc[i] = "failed" =>
              /\ sgPc = "responded"
              /\ sgResponse = [kind |-> "Status", code |-> "Aborted",
                               msg |-> "AgentUnavailable", agent |-> i]

\* in a 3-of-3 run one agent answered and the RPC to the other then failed
C14_Witness ==
    /\ shT = 3
    /\ \E i \in DOMAIN sgRpc, j \in DOMAIN sgRpc :
          sgRpc[i] = "ok" /\ sgRpc[j] = "failed"
    /\ sgResponse.kind = "Status"

\* C17: input validation precedes hashing.  A request whose currency code
\* is unknown to ISO 4217 or special is answered, at its first step, with an
\* error that is no fingerprint; no Poseidon squeeze has run for it, no
\* seed was computed and no cooperate RPC was sent.
C17_ValidationBeforeHashing ==
    (sgPc \notin {"idle", "received"} /\ sgItem.present
        /\ sgItem.currency \in {"XAU", "XXX", "ZZZ"})
    => /\ sgPc = "responded"
       /\ sgResponse.kind = "Status"
       /\ sgResponse.code \notin {"Ok", "Aborted"}
       /\ sgHashes = 0
       /\ sgSeed = <<>>
       /\ sgSent = <<>>

\* a request in XAU with otherwise acceptable dates was answered
C17_Witness ==
    /\ sgPc = "responded"
    /\ sgItem.present
    /\ sgItem.currency = "XAU"
    /\ sgItem.date_time = 1 /\ sgItem.wwd = 1
    /\ shT = 2

\* C15: once the client has dropped the response stream of a batch, no
\* further item of the batch is started (first polled) and none completes.
C15_CancellationStopsItems ==
    bRx = "dropped" => ~bLate.started /\ ~bLate.completed

\* C16: at any time of a batch request at most 16 items are held by
\* buffer_unordered (started and not yet completed) and at most 16
\* completed responses wait unread in the channel.
C16_InFlightAndChannelBounded ==
    bTask # "idle" =>
        /\ BagCardinality(bInFlight) <= BUFFER_UNORDERED
        /\ Len(bChannel) <= CHANNEL_CAPACITY

\* 16 items in flight while 16 responses wait unread in the channel and
\* items remain in the iterator
C16_Witness ==
    /\ BagCardinality(bInFlight) = BUFFER_UNORDERED
    /\ Len(bChannel) = CHANNEL_CAPACITY
    /\ bRemaining # <<>>

\* how many messages the client has read that came from items with this id
ReceivedFrom(id) == Cardinality({k \in DOMAIN bReceived : bReceived[k].from = id})

\* how many items of the batch have this id
ItemsWith(id) == Cardinality({i \in DOMAIN bBatch : bBatch[i].item_id = id})

\* C19: when a client that kept reading sees the end of the stream, it has
\* read exactly one message per item of the batch, and every response
\* carries the item_id of the item it was computed from.
C19_OneMessagePerItem ==
    bRx = "ended" =>
        /\ Len(bReceived) = Len(bBatch)
        /\ \A i \in DOMAIN bBatch :
               ReceivedFrom(bBatch[i].item_id) = ItemsWith(bBatch[i].item_id)
        /\ \A k \in DOMAIN bReceived :
               bReceived[k].resp.kind = "Response" =>
                   bReceived[k].resp.item_id = bReceived[k].from

\* C20: when every item's computation completes, the forwarding task
\* terminates; a client that keeps reading sees the stream closed; the
\* task never stays blocked in tx.send.
C20_BatchTerminates ==
    <>(/\ bTask \in {"done", "panicked"}
       /\ bClient = "reads" => bRx = "ended")

\* the task of the long batch has left its loop by break after the client
\* dropped the stream
C20_Witness ==
    /\ bTask = "done"
    /\ bRx = "dropped"
    /\ Len(bBatch) = LongBatch
    /\ bLate.completed

\* the rounds round(0), .., round(n - 1) one after the other
RECURSIVE RoundsFrom(_, _, _)
RoundsFrom(kind, k, n) ==
    IF k >= n THEN <<>>
    ELSE (CASE kind = "first" ->
                 << Op("sbox_full", "", 0),
                    Op("add_constants", "start", k + 1),
                    Op("mds", "", 0) >>
            [] kind = "partial" ->
                 << Op("sbox_part", "", 0),
                    Op("add_constant", "partial", k),
                    Op("sparse_mds", "sparse_matrices", k) >>
            [] OTHER ->
                 << Op("sbox_full", "", 0),
                    Op("add_constants", "end", k),
                    Op("mds", "", 0) >>)
         \o RoundsFrom(kind, k + 1, n)

\* the order of steps of one permutation with r_f full and r_p partial
\* rounds
PermutationOrder(r_f, r_p) ==
    <<Op("add_constants", "start", 0)>>
      \o RoundsFrom("first", 0, (r_f \div 2) - 1)
      \o << Op("sbox_full", "", 0),
            Op("add_constants", "start", r_f \div 2),
            Op("pre_sparse_mds", "", 0) >>
      \o RoundsFrom("partial", 0, r_p)
      \o RoundsFrom("end", 0, (r_f \div 2) - 1)
      \o <<Op("sbox_full", "", 0), Op("mds", "", 0)>>

\* how many steps of the permutation are this operation
Uses(op, from, at) ==
    Cardinality({k \in DOMAIN pLog : pLog[k] = Op(op, from, at)})

\* C18: a finished permutation has applied its steps in the order add
\* start[0]; r_f/2 - 1 full rounds on the next start constants; full S-box,
\* last start constants, pre-sparse MDS; r_p partial rounds, each with its
\* sparse matrix; the remaining full rounds on the end constants; one more
\* full S-box and a final MDS. It has run exactly r_f full S-box layers and
\* r_p partial ones and has used every round-constant vector exactly once.
C18_PermutationOrder ==
    pPc = "done" =>
        /\ pLog = PermutationOrder(pRf, pRp)
        /\ Cardinality({k \in DOMAIN pLog : pLog[k].op = "sbox_full"}) = pRf
        /\ Cardinality({k \in DOMAIN pLog : pLog[k].op = "sbox_part"}) = pRp
        /\ Cardinality({k \in DOMAIN pLog : pLog[k].op = "pre_sparse_mds"}) = 1
        /\ \A at \in 0..(StartLen - 1) : Uses("add_constants", "start", at) = 1
        /\ \A at \in 0..(PartialLen - 1) :
               /\ Uses("add_constant", "partial", at) = 1
               /\ Uses("sparse_mds", "sparse_matrices", at) = 1
        /\ \A at \in 0..(EndLen - 1) : Uses("add_constants", "end", at) = 1

\* a permutation of the Spec of the three hashers (8 full, 57 partial
\* rounds) has finished
C18_Witness ==
    /\ pPc = "done"
    /\ pRf = SPEC_R_F
    /\ pRp = SPEC_R_P
    /\ Len(pLog) = 1 + (3 * (SPEC_R_F - 1)) + (3 * SPEC_R_P) + 2

=============================================================================
